---- MODULE Spec2Model ----
(***************************************************************************)
(* A model of the native bridge of sentry-react-native: the NATIVE wrapper *)
(* object of src/js/wrapper.ts (availability gate, envelope construction,  *)
(* scope bridge, lifecycle), and the touch handler of TouchEventBoundary.  *)
(*                                                                         *)
(* JavaScript values are modelled as follows.  An object is a function     *)
(* from its keys (strings) to its values; a key that is missing and a key  *)
(* whose value is undefined are the same thing for everything the wrapper  *)
(* does with them (?., ??, truthiness, JSON.stringify), so an undefined    *)
(* property is a missing key, except for string-valued properties that the *)
(* code sets to undefined explicitly (level), which hold Undefined until   *)
(* a JSON pass drops them.  null is the object Null.  Arrays are           *)
(* sequences.  JSON text is a string, built character by character.        *)
(*                                                                         *)
(* Every call of an async function runs synchronously up to its first      *)
(* await; each continuation after an await is one further atomic step.     *)
(* Native replies are chosen nondeterministically.                         *)
(***************************************************************************)
EXTENDS Integers, Sequences, FiniteSets, TLC

VARIABLES
    enableNative,   \* NATIVE.enableNative
    nativeIsReady,  \* NATIVE.nativeIsReady
    RNSentry,       \* NativeModules.RNSentry: "module" or Undefined
    platform,       \* NATIVE.platform
    nativeCalls,    \* every call made on RNSentry so far, in order
    sends,          \* sendEvent calls that passed the gate: id -> locals
    closes,         \* closeNativeSdk calls that reached native: id -> pc
    inits,          \* initNativeSdk calls that reached native: id -> locals
    last,           \* what the latest invocation did before returning
    issued,         \* the scope mutations invoked while enabled and loaded
    touch           \* a mounted TouchEventBoundary: its props, the locals of
                    \* its touch handler, the breadcrumbs it logged

vars == <<enableNative, nativeIsReady, RNSentry, platform, nativeCalls,
          sends, closes, inits, last, issued, touch>>

-----------------------------------------------------------------------------
(* Bounds *)

\* Number of wrapper operations invoked in one behaviour.
MaxOps == 2

\* Longest breadcrumb list of an event handed to sendEvent.
MaxCrumbs == 2

-----------------------------------------------------------------------------
(* JavaScript values *)

Undefined == "undefined"
Null == [null |-> TRUE]
\* obj.k is neither missing nor undefined
Has(obj, k) == k \in DOMAIN obj /\ obj[k] /= Undefined

\* { ...obj, k: v }
Put(obj, k, v) == [x \in DOMAIN obj \cup {k} |-> IF x = k THEN v ELSE obj[x]]

\* delete obj.k
Delete(obj, k) == [x \in DOMAIN obj \ {k} |-> obj[x]]

\* the properties ks of obj, as far as obj has them
Pick(obj, ks) == [x \in DOMAIN obj \cap ks |-> obj[x]]

-----------------------------------------------------------------------------
(* JSON.stringify *)

Quote(s) == "\"" \o s \o "\""

RECURSIVE JoinComma(_)
JoinComma(texts) ==
    IF texts = <<>> THEN ""
    ELSE IF Len(texts) = 1 THEN texts[1]
    ELSE texts[1] \o "," \o JoinComma(Tail(texts))

\* The keys of obj among keys, in that order.
KeptKeys(obj, keys) == SelectSeq(keys, LAMBDA k : k \in DOMAIN obj)

\* "k":text
Member(k, text) == Quote(k) \o ":" \o text

JsonObject(members) == "{" \o JoinComma(members) \o "}"
JsonArray(elements) == "[" \o JoinComma(elements) \o "]"

\* An object all of whose values are strings (or Undefined, which is dropped).
StringifyStrings(obj, keys) ==
    LET kept == SelectSeq(keys, LAMBDA k : Has(obj, k))
    IN  JsonObject([i \in 1..Len(kept) |-> Member(kept[i], Quote(obj[kept[i]]))])

CrumbKeys == <<"category", "level", "message", "type">>
StringifyBreadcrumb(b) == StringifyStrings(b, CrumbKeys)

StringifyBool(b) == IF b THEN "true" ELSE "false"

StringifyMechanism(m) ==
    LET ks == KeptKeys(m, <<"handled">>)
    IN  JsonObject([i \in 1..Len(ks) |-> Member(ks[i], StringifyBool(m[ks[i]]))])

StringifyExceptionValue(v) ==
    LET ks == KeptKeys(v, <<"type", "mechanism">>)
    IN  JsonObject([i \in 1..Len(ks) |->
            Member(ks[i], IF ks[i] = "mechanism" THEN StringifyMechanism(v[ks[i]])
                          ELSE Quote(v[ks[i]]))])

StringifyException(e) ==
    LET ks == KeptKeys(e, <<"values">>)
    IN  JsonObject([i \in 1..Len(ks) |->
            Member(ks[i], JsonArray([j \in 1..Len(e[ks[i]]) |->
                                        StringifyExceptionValue(e[ks[i]][j])]))])

\* The order in which an event literal lists its keys (insertion order).
EventKeys == <<"event_id", "level", "message", "breadcrumbs", "exception",
               "sdk", "type", "sdkProcessingMetadata">>

\* The keys of { ...event, message: {...} }: the keys of event in their
\* order, with message appended when event had none.
PayloadKeys(event) ==
    IF "message" \in DOMAIN event THEN EventKeys
    ELSE SelectSeq(EventKeys, LAMBDA k : k /= "message") \o <<"message">>

StringifyPayload(payload, keys) ==
    LET kept == SelectSeq(keys, LAMBDA k :
                    /\ k \in DOMAIN payload
                    /\ (k \in {"level", "type", "event_id"} => payload[k] /= Undefined))
        Text(k) ==
            CASE k = "message" -> StringifyStrings(payload[k], <<"message">>)
              [] k = "breadcrumbs" ->
                    JsonArray([i \in 1..Len(payload[k]) |->
                                  StringifyBreadcrumb(payload[k][i])])
              [] k = "exception" -> StringifyException(payload[k])
              [] k \in {"sdk", "sdkProcessingMetadata"} ->
                    StringifyStrings(payload[k], <<"name">>)
              [] OTHER -> Quote(payload[k])
    IN  JsonObject([i \in 1..Len(kept) |-> Member(kept[i], Text(kept[i]))])

\* JSON.parse(JSON.stringify(payload)): the same value without the
\* properties JSON.stringify drops (those that are undefined).
DropUndefined(obj) == [k \in {x \in DOMAIN obj : obj[x] /= Undefined} |-> obj[k]]

JsonRoundTrip(payload) ==
    LET kept == {k \in DOMAIN payload :
                    k \in {"level", "type", "event_id"} => payload[k] /= Undefined}
    IN  [k \in kept |->
            IF k = "breadcrumbs"
            THEN [i \in 1..Len(payload[k]) |-> DropUndefined(payload[k][i])]
            ELSE IF k = "message" THEN DropUndefined(payload[k])
            ELSE payload[k]]

-----------------------------------------------------------------------------
(* Values of type unknown: the wrapper tests them with typeof *)

Str(s) == [t |-> "string", s |-> s]
Num(n) == [t |-> "number", n |-> n]
Obj(o) == [t |-> "object", o |-> o]
Undef == [t |-> "undefined"]

\* JSON.stringify(value); the members of a nested object are numbers.
\* JSON.stringify(undefined) is undefined, not a string.
StringifyValue(x) ==
    CASE x.t = "string" -> Quote(x.s)
      [] x.t = "number" -> ToString(x.n)
      [] x.t = "object" ->
            LET keys == SelectSeq(<<"k", "n">>, LAMBDA k : k \in DOMAIN x.o)
            IN  JsonObject([i \in 1..Len(keys) |->
                               Member(keys[i], ToString(x.o[keys[i]]))])
      [] OTHER -> Undefined

\* typeof value === 'string' ? value : JSON.stringify(value)
StringOrJson(value) == IF value.t = "string" THEN value.s ELSE StringifyValue(value)

_serializeObject(data) == [dataKey \in DOMAIN data |-> StringOrJson(data[dataKey])]

\* Only critical is converted, log is left as it is.
_processLevelCriticalOnly(level) ==
    IF level = "critical" THEN "fatal" ELSE level

_processLevel(level) ==
    IF level = "critical" THEN "fatal"
    ELSE IF level = "log" THEN "debug"
    ELSE level

\* level ? level : undefined
ProcessedLevelRaw(obj) ==
    IF Has(obj, "level") /\ obj.level /= "" THEN obj.level ELSE Undefined

\* level ? this._processLevel(level) : undefined
ProcessedLevel(obj) ==
    IF Has(obj, "level") /\ obj.level /= "" THEN _processLevel(obj.level)
    ELSE Undefined

\* Only the level of the event is converted, its breadcrumbs are left alone.
_processLevelsEventOnly(event) == Put(event, "level", ProcessedLevel(event))

_processLevels(event) ==
    LET withLevel == Put(event, "level", ProcessedLevel(event))
    IN  IF "breadcrumbs" \in DOMAIN event
        THEN Put(withLevel, "breadcrumbs",
                 [i \in 1..Len(event.breadcrumbs) |->
                     Put(event.breadcrumbs[i], "level",
                         ProcessedLevel(event.breadcrumbs[i]))])
        ELSE withLevel

\* module !== null, which undefined passes
_isModuleLoadedNotNull(module) == module /= "null"

\* !!module
_isModuleLoaded(module) == module /= Undefined

\* The module check first, the enableNative check second.
GateModuleFirst ==
    IF ~_isModuleLoaded(RNSentry) THEN "unavailable"
    ELSE IF ~enableNative THEN "disabled"
    ELSE "open"

\* The two checks every gated operation starts with, in the order the code
\* makes them: if (!this.enableNative) ...; if (!this._isModuleLoaded(RNSentry)) ...
Gate ==
    IF ~enableNative THEN "disabled"
    ELSE IF ~_isModuleLoaded(RNSentry) THEN "unavailable"
    ELSE "open"

\* event.exception?.values?.[0]?.mechanism?.handled != false
HandledNotFalse(event) ==
    ~ /\ "exception" \in DOMAIN event
      /\ "values" \in DOMAIN event.exception
      /\ Len(event.exception.values) >= 1
      /\ "mechanism" \in DOMAIN event.exception.values[1]
      /\ "handled" \in DOMAIN event.exception.values[1].mechanism
      /\ event.exception.values[1].mechanism.handled = FALSE

\* The test on handled the wrong way round: handled == false.
ClearBreadcrumbsInverted(event) ==
    IF ~HandledNotFalse(event) /\ "breadcrumbs" \in DOMAIN event
    THEN Put(event, "breadcrumbs", <<>>)
    ELSE event

\* if (handled != false && event.breadcrumbs) event.breadcrumbs = []
ClearBreadcrumbs(event) ==
    IF HandledNotFalse(event) /\ "breadcrumbs" \in DOMAIN event
    THEN Put(event, "breadcrumbs", <<>>)
    ELSE event

\* { ...event, message: { message: event.message } }
WrapMessage(event) ==
    Put(event, "message",
        [message |-> IF "message" \in DOMAIN event THEN event.message ELSE Undefined])

\* The levels are rewritten in the event itself, which is returned.
_processLevelsResultInPlace(ref) == ref

\* The object _processLevels returns for the object ref: processed, a new
\* object built by an object literal.
_processLevelsResult(ref) == "processed"

\* The caller's event object after sendEvent's assignments to `event` (the
\* delete, the android clearing) made it `changed`: the two are one object
\* only if _processLevels returned its argument.
CallerEvent(_event, changed) ==
    Put([caller |-> _event], _processLevelsResult("caller"), changed).caller

\* const event = this._processLevels(_event);
\* delete event.sdkProcessingMetadata;
Prepared(_event) == Delete(_processLevels(_event), "sdkProcessingMetadata")

\* The payload of the android branch: the message wrapped after the clearing.
AndroidPayload(event) == WrapMessage(ClearBreadcrumbs(event))

\* The breadcrumbs are cleared on iOS as they are on android.
IosPayloadCleared(event) == JsonRoundTrip(WrapMessage(ClearBreadcrumbs(event)))

\* The payload of the iOS branch: JSON.parse(JSON.stringify(payload)) of the
\* event with its message wrapped.
IosPayload(event) == JsonRoundTrip(WrapMessage(event))

\* { event_id: event.event_id, sdk: event.sdk }
Header(event) == Pick(event, {"event_id", "sdk"})

StringifyHeader(header) ==
    LET ks == KeptKeys(header, <<"event_id", "sdk">>)
    IN  JsonObject([i \in 1..Len(ks) |->
            Member(ks[i], IF ks[i] = "sdk" THEN StringifyStrings(header[ks[i]], <<"name">>)
                          ELSE Quote(header[ks[i]]))])

\* { content_type: 'application/json', length, type: payload.type ?? 'event' }
Item(payload, length) ==
    [content_type |-> "application/json",
     length |-> length,
     type |-> IF Has(payload, "type") THEN payload.type ELSE "event"]

StringifyItem(item) ==
    JsonObject(<< Member("content_type", Quote(item.content_type)),
                  Member("length", ToString(item.length)),
                  Member("type", Quote(item.type)) >>)

\* `${headerString}\n${itemString}\n${payloadString}`
EnvelopeString(headerString, itemString, payloadString) ==
    headerString \o "\n" \o itemString \o "\n" \o payloadString

-----------------------------------------------------------------------------
(* Inputs *)

Platforms == {"android", "ios"}

Crumbs ==
    { [message |-> "b1"],
      [message |-> "b2", level |-> "critical"],
      [message |-> "b3", level |-> "info", category |-> "touch"] }

CrumbLists == UNION { [1..n -> Crumbs] : n \in 0..MaxCrumbs }

Exception(handled) ==
    [values |-> << [type |-> "Error", mechanism |-> [handled |-> handled]] >>]
ExceptionNoMechanism == [values |-> << [type |-> "Error"] >>]

Sdk == [name |-> "rn"]
Metadata == [name |-> "meta"]

\* events with or without the property k, taken from vs
WithOptional(events, k, vs) == events \cup { Put(e, k, v) : e \in events, v \in vs }

\* The events of the envelope specification.
EnvelopeEvents ==
    LET e0 == { [event_id |-> "e1", sdk |-> Sdk] }
        e1 == WithOptional(e0, "level", {"critical", "log", "error"})
        e2 == WithOptional(e1, "message", {"m"})
        e3 == WithOptional(e2, "breadcrumbs", CrumbLists)
        e4 == WithOptional(e3, "exception",
                  {Exception(TRUE), Exception(FALSE), ExceptionNoMechanism})
    IN  e4 \cup { Put(Put(e, "type", "transaction"), "sdkProcessingMetadata", Metadata) :
                    e \in e4 }

\* The event of the interleaving specification.
Events ==
    { [event_id |-> "e1", sdk |-> Sdk, level |-> "critical", message |-> "m",
       breadcrumbs |-> << [message |-> "b2", level |-> "log"] >>,
       exception |-> Exception(TRUE), sdkProcessingMetadata |-> Metadata] }

Users == { Null, [id |-> Str("1"), plan |-> Str("pro"), age |-> Num(7)] }
TagValues == { Str("v") }
Extras == { Obj([k |-> 1]) }
Contexts == { Null, [a |-> Str("x"), b |-> Num(5)] }
ScopeCrumbs ==
    { [message |-> "b2", level |-> "critical", data |-> [a |-> Num(5)]] }

\* The values of Severity.
Severities == {"fatal", "error", "warning", "log", "info", "debug", "critical"}

\* The inputs of the scope specification.
ScopeValues == { Str("x"), Num(5), Obj([k |-> 1]), Undef }

ScopeUsers ==
    LET u0 == { [id |-> Str("1")], [id |-> Num(7)], [plan |-> Str("pro")] }
        u1 == WithOptional(u0, "email", {Str("a@b.c")})
        u2 == WithOptional(u1, "username", {Str("u")})
        u3 == WithOptional(u2, "ip_address", {Str("1.2.3.4")})
        u4 == WithOptional(u3, "age", {Num(7)})
    IN  {Null} \cup WithOptional(u4, "org", {Obj([k |-> 1, n |-> 2])})

ScopeContexts ==
    {Null} \cup WithOptional({ [a |-> v] : v \in ScopeValues }, "b", ScopeValues)

ScopeBreadcrumbs ==
    LET b0 == WithOptional({ [message |-> "b"] }, "level", Severities)
        b1 == WithOptional(b0, "category", {"touch"})
    IN  WithOptional(b1, "data", { [a |-> Num(5)], [a |-> Str("x"), b |-> Undef] })

\* The options of the first call of the initialization specification.
InitOptions ==
    LET o0 == { [dsn |-> "dsn"], [dsn |-> "dsn", enableNative |-> TRUE, release |-> "r1"],
                [release |-> "r1"] }
        o1 == WithOptional(o0, "beforeSend", {"fn"})
        o2 == WithOptional(o1, "beforeBreadcrumb", {"fn"})
        o3 == WithOptional(o2, "integrations", {"list"})
        o4 == WithOptional(o3, "defaultIntegrations", {"list"})
    IN  WithOptional(o4, "transport", {"class"})

OptionsSet ==
    { [dsn |-> "dsn", enableNative |-> TRUE, beforeSend |-> "fn"],
      [dsn |-> "dsn", enableNative |-> FALSE, enableNativeNagger |-> TRUE],
      [dsn |-> "dsn", autoInitializeNativeSdk |-> FALSE],
      [enableNativeNagger |-> TRUE] }

-----------------------------------------------------------------------------
(* Invocations *)

ScopeOps == {"setUser", "setTag", "setExtra", "setContext", "addBreadcrumb",
             "clearBreadcrumbs"}

NextId == last.id + 1

Call(method, args) == [method |-> method, args |-> args, by |-> NextId]

\* The invocation of op with the argument(s) arg returns (or throws) outcome
\* to its caller after making the native calls `calls`; left is the caller's
\* argument object as the call leaves it.
InvokeLeaving(op, arg, left, outcome, calls) ==
    /\ last.id < MaxOps
    /\ last' = [id |-> NextId, op |-> op, arg |-> arg, left |-> left,
                enabled |-> enableNative, outcome |-> outcome, made |-> Len(calls)]
    /\ nativeCalls' = nativeCalls \o calls
    /\ issued' = IF op \in ScopeOps /\ enableNative /\ _isModuleLoaded(RNSentry)
                 THEN Append(issued, [id |-> NextId, op |-> op])
                 ELSE issued
    /\ UNCHANGED touch

\* An invocation that assigns to no property of its argument.
Invoke(op, arg, outcome, calls) == InvokeLeaving(op, arg, arg, outcome, calls)

\* The wrapper as the module creates it.
InitNative ==
    /\ enableNative = TRUE
    /\ nativeIsReady = FALSE
    /\ RNSentry \in {"module", Undefined}
    /\ platform \in Platforms
    /\ nativeCalls = <<>>
    /\ sends = <<>>
    /\ closes = <<>>
    /\ inits = <<>>
    /\ last = [id |-> 0, op |-> "none", arg |-> <<>>, left |-> <<>>, enabled |-> TRUE,
               outcome |-> "none", made |-> 0]
    /\ issued = <<>>

\* A TouchEventBoundary mounted with props, before any touch.
Mounted(props) ==
    [pc |-> "mounted", props |-> props, logged |-> <<>>]

\* static defaultProps
DEFAULT_BREADCRUMB_CATEGORY == "touch"
DEFAULT_BREADCRUMB_TYPE == "user"
DEFAULT_MAX_COMPONENT_TREE_SIZE == 20

defaultProps ==
    [breadcrumbCategory |-> DEFAULT_BREADCRUMB_CATEGORY,
     breadcrumbType |-> DEFAULT_BREADCRUMB_TYPE,
     ignoreNames |-> <<>>,
     maxComponentTreeSize |-> DEFAULT_MAX_COMPONENT_TREE_SIZE]

Init == InitNative /\ touch = Mounted(defaultProps)

-----------------------------------------------------------------------------
(* sendEvent *)

\* The synchronous part of sendEvent, up to its first await.
sendEvent(_event) ==
    /\ UNCHANGED <<enableNative, nativeIsReady, RNSentry, platform, closes, inits>>
    /\ IF Gate = "disabled"
       THEN Invoke("sendEvent", _event, "skipped", <<>>) /\ UNCHANGED sends
       ELSE IF Gate = "unavailable"
       THEN Invoke("sendEvent", _event, "NativeClientError", <<>>) /\ UNCHANGED sends
       ELSE
         LET event == Prepared(_event)
             header == Header(event)
         IN  IF platform = "android"
             THEN
               LET payload == AndroidPayload(event)
                   payloadString == StringifyPayload(payload, PayloadKeys(event))
               IN  /\ InvokeLeaving("sendEvent", _event,
                             CallerEvent(_event, ClearBreadcrumbs(event)), "pending",
                             << Call("getStringBytesLength", <<payloadString>>) >>)
                   /\ sends' = sends @@ (NextId :>
                         [pc |-> "getStringBytesLength", arg |-> _event,
                          header |-> header, payload |-> payload,
                          payloadString |-> payloadString,
                          length |-> Len(payloadString),
                          bytes |-> [status |-> "pending"],
                          envelopeWasSent |-> FALSE, result |-> "pending"])
             ELSE
               LET serializedPayload == IosPayload(event)
               IN  /\ InvokeLeaving("sendEvent", _event,
                             CallerEvent(_event, event), "pending",
                             << Call("captureEnvelope",
                                     << [header |-> header,
                                         payload |-> serializedPayload] >>) >>)
                   /\ sends' = sends @@ (NextId :>
                         [pc |-> "captureEnvelope", arg |-> _event,
                          header |-> header, payload |-> serializedPayload,
                          envelopeWasSent |-> FALSE, result |-> "pending"])

\* sendEvent after `await RNSentry.getStringBytesLength(payloadString)`, with
\* the length it goes on with: the item, the envelope, the capture call.
\* bytes is how the native promise settled.
afterGetStringBytesLength(id, length, bytes) ==
    LET task == sends[id]
        item == Item(task.payload, length)
        envelopeString == EnvelopeString(StringifyHeader(task.header),
                                         StringifyItem(item), task.payloadString)
    IN  /\ sends' = [sends EXCEPT ![id].pc = "captureEnvelope",
                                  ![id].length = length,
                                  ![id].bytes = bytes]
        /\ nativeCalls' = Append(nativeCalls,
               [method |-> "captureEnvelope", args |-> <<envelopeString>>, by |-> id])
        /\ UNCHANGED <<enableNative, nativeIsReady, RNSentry, platform, closes,
                       inits, last, issued, touch>>

\* No try/catch around the length call: its failure rejects sendEvent.
getStringBytesLengthRejectedPropagates(id) ==
    /\ id \in DOMAIN sends
    /\ sends[id].pc = "getStringBytesLength"
    /\ sends' = [sends EXCEPT ![id].pc = "done", ![id].result = "rejected",
                              ![id].bytes = [status |-> "rejected"]]
    /\ UNCHANGED <<enableNative, nativeIsReady, RNSentry, platform, nativeCalls,
                   closes, inits, last, issued, touch>>

\* Native replies to getStringBytesLength with the text's length in bytes,
\* which is at least its length in characters.
getStringBytesLengthResolved(id, bytes) ==
    /\ id \in DOMAIN sends
    /\ sends[id].pc = "getStringBytesLength"
    /\ afterGetStringBytesLength(id, bytes, [status |-> "resolved", value |-> bytes])

\* The native getStringBytesLength call fails: the catch block is empty.
getStringBytesLengthRejected(id) ==
    /\ id \in DOMAIN sends
    /\ sends[id].pc = "getStringBytesLength"
    /\ afterGetStringBytesLength(id, sends[id].length, [status |-> "rejected"])

\* The reply is not looked at: every delivery counts as a success.
captureEnvelopeResolvedAlwaysSuccess(id, reply) ==
    /\ id \in DOMAIN sends
    /\ sends[id].pc = "captureEnvelope"
    /\ sends' = [sends EXCEPT ![id].pc = "done",
                              ![id].envelopeWasSent = reply,
                              ![id].result = "success"]
    /\ UNCHANGED <<enableNative, nativeIsReady, RNSentry, platform, nativeCalls,
                   closes, inits, last, issued, touch>>

\* sendEvent after `await RNSentry.captureEnvelope(...)` replied.
captureEnvelopeResolved(id, reply) ==
    /\ id \in DOMAIN sends
    /\ sends[id].pc = "captureEnvelope"
    /\ sends' = [sends EXCEPT ![id].pc = "done",
                              ![id].envelopeWasSent = reply,
                              ![id].result = IF reply THEN "success" ELSE "failed"]
    /\ UNCHANGED <<enableNative, nativeIsReady, RNSentry, platform, nativeCalls,
                   closes, inits, last, issued, touch>>

\* The native captureEnvelope call fails: nothing catches it, the promise
\* sendEvent returned is rejected with the native error.
captureEnvelopeRejected(id) ==
    /\ id \in DOMAIN sends
    /\ sends[id].pc = "captureEnvelope"
    /\ sends' = [sends EXCEPT ![id].pc = "done", ![id].result = "rejected"]
    /\ UNCHANGED <<enableNative, nativeIsReady, RNSentry, platform, nativeCalls,
                   closes, inits, last, issued, touch>>

-----------------------------------------------------------------------------
(* initNativeSdk and closeNativeSdk *)

\* { enableNative: true, autoInitializeNativeSdk: true, ...originalOptions }
WithDefaults(originalOptions) ==
    LET defaults == [enableNative |-> TRUE, autoInitializeNativeSdk |-> TRUE]
    IN  [k \in DOMAIN defaults \cup DOMAIN originalOptions |->
            IF k \in DOMAIN originalOptions THEN originalOptions[k] ELSE defaults[k]]

\* transport is not taken out of the options.
FilteredOptionsKeepTransport(options) ==
    [k \in DOMAIN options \ {"beforeSend", "beforeBreadcrumb", "integrations",
                             "defaultIntegrations"} |-> options[k]]

\* const { beforeSend, beforeBreadcrumb, integrations, defaultIntegrations,
\*         transport, ...filteredOptions } = options
FilteredOptions(options) ==
    [k \in DOMAIN options \ {"beforeSend", "beforeBreadcrumb", "integrations",
                             "defaultIntegrations", "transport"} |-> options[k]]

\* this.enableNative = options.enableNative
EnableNativeFromOptions(options) == options.enableNative

\* What initNativeSdk leaves in this.enableNative: it assigns the flag on one
\* path only, if (!options.enableNative) { this.enableNative = false; }
EnableNativeAfterInit(options) ==
    IF ~options.enableNative THEN FALSE ELSE enableNative

\* The module check first, the checks of the options after it.
initNativeSdkModuleFirst(originalOptions) ==
    LET options == WithDefaults(originalOptions)
    IN  /\ UNCHANGED <<nativeIsReady, RNSentry, platform, sends, closes>>
        /\ IF ~_isModuleLoaded(RNSentry)
           THEN /\ Invoke("initNativeSdk", originalOptions, "NativeClientError", <<>>)
                /\ UNCHANGED <<enableNative, inits>>
           ELSE /\ enableNative' = EnableNativeAfterInit(options)
                /\ IF \/ ~options.enableNative
                      \/ ~options.autoInitializeNativeSdk
                      \/ ~("dsn" \in DOMAIN options /\ options.dsn /= "")
                   THEN Invoke("initNativeSdk", originalOptions, "false", <<>>)
                        /\ UNCHANGED inits
                   ELSE /\ Invoke("initNativeSdk", originalOptions, "pending",
                              << Call("initNativeSdk", <<FilteredOptions(options)>>) >>)
                        /\ inits' = inits @@ (NextId :>
                               [pc |-> "initNativeSdk", options |-> originalOptions,
                                result |-> "pending"])

initNativeSdk(originalOptions) ==
    LET options == WithDefaults(originalOptions)
    IN  /\ UNCHANGED <<nativeIsReady, RNSentry, platform, sends, closes>>
        /\ enableNative' = EnableNativeAfterInit(options)
        /\ IF ~options.enableNative
           THEN Invoke("initNativeSdk", originalOptions, "false", <<>>) /\ UNCHANGED inits
           ELSE IF ~options.autoInitializeNativeSdk
           THEN Invoke("initNativeSdk", originalOptions, "false", <<>>) /\ UNCHANGED inits
           ELSE IF ~("dsn" \in DOMAIN options /\ options.dsn /= "")
           THEN Invoke("initNativeSdk", originalOptions, "false", <<>>) /\ UNCHANGED inits
           ELSE IF ~_isModuleLoaded(RNSentry)
           THEN Invoke("initNativeSdk", originalOptions, "NativeClientError", <<>>)
                /\ UNCHANGED inits
           ELSE /\ Invoke("initNativeSdk", originalOptions, "pending",
                          << Call("initNativeSdk", <<FilteredOptions(options)>>) >>)
                /\ inits' = inits @@ (NextId :>
                       [pc |-> "initNativeSdk", options |-> originalOptions,
                        result |-> "pending"])

\* initNativeSdk after `await RNSentry.initNativeSdk(filteredOptions)` replied.
initNativeSdkResolved(id, reply) ==
    /\ id \in DOMAIN inits
    /\ inits[id].pc = "initNativeSdk"
    /\ nativeIsReady' = reply
    /\ inits' = [inits EXCEPT ![id].pc = "done",
                              ![id].result = IF reply THEN "true" ELSE "false"]
    /\ UNCHANGED <<enableNative, RNSentry, platform, nativeCalls, sends, closes,
                   last, issued, touch>>

initNativeSdkRejected(id) ==
    /\ id \in DOMAIN inits
    /\ inits[id].pc = "initNativeSdk"
    /\ inits' = [inits EXCEPT ![id].pc = "done", ![id].result = "rejected"]
    /\ UNCHANGED <<enableNative, nativeIsReady, RNSentry, platform, nativeCalls,
                   sends, closes, last, issued, touch>>

\* The flag is cleared when the native close is issued, not when it resolved.
closeNativeSdkFlagFirst ==
    /\ UNCHANGED <<nativeIsReady, RNSentry, platform, sends, inits>>
    /\ IF Gate = "disabled"
       THEN Invoke("closeNativeSdk", <<>>, "returned", <<>>)
            /\ UNCHANGED <<enableNative, closes>>
       ELSE IF Gate = "unavailable"
       THEN Invoke("closeNativeSdk", <<>>, "returned", <<>>)
            /\ UNCHANGED <<enableNative, closes>>
       ELSE /\ Invoke("closeNativeSdk", <<>>, "pending",
                      << Call("closeNativeSdk", <<>>) >>)
            /\ closes' = closes @@ (NextId :> "closeNativeSdk")
            /\ enableNative' = FALSE

closeNativeSdk ==
    /\ UNCHANGED <<enableNative, nativeIsReady, RNSentry, platform, sends, inits>>
    /\ IF Gate = "disabled"
       THEN Invoke("closeNativeSdk", <<>>, "returned", <<>>) /\ UNCHANGED closes
       ELSE IF Gate = "unavailable"
       THEN Invoke("closeNativeSdk", <<>>, "returned", <<>>) /\ UNCHANGED closes
       ELSE /\ Invoke("closeNativeSdk", <<>>, "pending",
                      << Call("closeNativeSdk", <<>>) >>)
            /\ closes' = closes @@ (NextId :> "closeNativeSdk")

\* The then callback marks the SDK as not ready as well.
closeNativeSdkResolvedClearsReady(id) ==
    /\ id \in DOMAIN closes
    /\ closes[id] = "closeNativeSdk"
    /\ enableNative' = FALSE
    /\ nativeIsReady' = FALSE
    /\ closes' = [closes EXCEPT ![id] = "resolved"]
    /\ UNCHANGED <<RNSentry, platform, nativeCalls, sends, inits, last, issued, touch>>

\* RNSentry.closeNativeSdk().then(() => { this.enableNative = false; })
closeNativeSdkResolved(id) ==
    /\ id \in DOMAIN closes
    /\ closes[id] = "closeNativeSdk"
    /\ enableNative' = FALSE
    /\ closes' = [closes EXCEPT ![id] = "resolved"]
    /\ UNCHANGED <<nativeIsReady, RNSentry, platform, nativeCalls, sends, inits,
                   last, issued, touch>>

closeNativeSdkRejected(id) ==
    /\ id \in DOMAIN closes
    /\ closes[id] = "closeNativeSdk"
    /\ closes' = [closes EXCEPT ![id] = "rejected"]
    /\ UNCHANGED <<enableNative, nativeIsReady, RNSentry, platform, nativeCalls,
                   sends, inits, last, issued, touch>>

-----------------------------------------------------------------------------
(* Operations that run to completion when called *)

Unchanged == UNCHANGED <<enableNative, nativeIsReady, RNSentry, platform, sends,
                         closes, inits>>

\* fetchNativeRelease, fetchNativeAppStart, fetchNativeFrames
fetchNative(method) ==
    /\ Unchanged
    /\ IF Gate = "disabled" THEN Invoke(method, <<>>, "DisabledNativeError", <<>>)
       ELSE IF Gate = "unavailable"
       THEN Invoke(method, <<>>, "NativeClientError", <<>>)
       ELSE Invoke(method, <<>>, "native", << Call(method, <<>>) >>)

fetchNativeRelease == fetchNative("fetchNativeRelease")
fetchNativeAppStart == fetchNative("fetchNativeAppStart")
fetchNativeFrames == fetchNative("fetchNativeFrames")

fetchNativeSdkInfo ==
    /\ Unchanged
    /\ IF Gate = "disabled" THEN Invoke("fetchNativeSdkInfo", <<>>, "DisabledNativeError", <<>>)
       ELSE IF Gate = "unavailable"
       THEN Invoke("fetchNativeSdkInfo", <<>>, "NativeClientError", <<>>)
       ELSE IF platform /= "ios" THEN Invoke("fetchNativeSdkInfo", <<>>, "null", <<>>)
       ELSE Invoke("fetchNativeSdkInfo", <<>>, "native",
                   << Call("fetchNativeSdkInfo", <<>>) >>)

fetchNativeDeviceContexts ==
    /\ Unchanged
    /\ IF Gate = "disabled"
       THEN Invoke("fetchNativeDeviceContexts", <<>>, "DisabledNativeError", <<>>)
       ELSE IF Gate = "unavailable"
       THEN Invoke("fetchNativeDeviceContexts", <<>>, "NativeClientError", <<>>)
       ELSE IF platform /= "ios" THEN Invoke("fetchNativeDeviceContexts", <<>>, "{}", <<>>)
       ELSE Invoke("fetchNativeDeviceContexts", <<>>, "native",
                   << Call("fetchNativeDeviceContexts", <<>>) >>)

nativeCrash ==
    /\ Unchanged
    /\ IF Gate = "disabled" THEN Invoke("nativeCrash", <<>>, "returned", <<>>)
       ELSE IF Gate = "unavailable"
       THEN Invoke("nativeCrash", <<>>, "NativeClientError", <<>>)
       ELSE Invoke("nativeCrash", <<>>, "returned", << Call("crash", <<>>) >>)

disableNativeFramesTracking ==
    /\ Unchanged
    /\ IF Gate = "disabled" THEN Invoke("disableNativeFramesTracking", <<>>, "returned", <<>>)
       ELSE IF Gate = "unavailable"
       THEN Invoke("disableNativeFramesTracking", <<>>, "returned", <<>>)
       ELSE Invoke("disableNativeFramesTracking", <<>>, "returned",
                   << Call("disableNativeFramesTracking", <<>>) >>)

isNativeTransportAvailable ==
    /\ Unchanged
    /\ Invoke("isNativeTransportAvailable", <<>>,
              IF enableNative /\ _isModuleLoaded(RNSentry) THEN "true" ELSE "false",
              <<>>)

-----------------------------------------------------------------------------
(* Scope bridge *)

DefaultUserKeys == {"id", "ip_address", "email", "username"}

setUser(user) ==
    /\ Unchanged
    /\ IF Gate = "disabled" THEN Invoke("setUser", user, "returned", <<>>)
       ELSE IF Gate = "unavailable"
       THEN Invoke("setUser", user, "NativeClientError", <<>>)
       ELSE IF user /= Null
       THEN LET defaults == [k \in DefaultUserKeys |->
                                IF k \in DOMAIN user THEN user[k] ELSE Undef]
                otherKeys == [k \in DOMAIN user \ DefaultUserKeys |-> user[k]]
            IN  Invoke("setUser", user, "returned",
                       << Call("setUser", << _serializeObject(defaults),
                                             _serializeObject(otherKeys) >>) >>)
       ELSE Invoke("setUser", user, "returned", << Call("setUser", <<Null, Null>>) >>)

setTag(key, value) ==
    /\ Unchanged
    /\ IF Gate = "disabled" THEN Invoke("setTag", <<key, value>>, "returned", <<>>)
       ELSE IF Gate = "unavailable"
       THEN Invoke("setTag", <<key, value>>, "NativeClientError", <<>>)
       ELSE Invoke("setTag", <<key, value>>, "returned",
                   << Call("setTag", <<key, StringOrJson(value)>>) >>)

setExtra(key, extra) ==
    /\ Unchanged
    /\ IF Gate = "disabled" THEN Invoke("setExtra", <<key, extra>>, "returned", <<>>)
       ELSE IF Gate = "unavailable"
       THEN Invoke("setExtra", <<key, extra>>, "NativeClientError", <<>>)
       ELSE Invoke("setExtra", <<key, extra>>, "returned",
                   << Call("setExtra", <<key, StringOrJson(extra)>>) >>)

addBreadcrumb(breadcrumb) ==
    /\ Unchanged
    /\ IF Gate = "disabled" THEN Invoke("addBreadcrumb", breadcrumb, "returned", <<>>)
       ELSE IF Gate = "unavailable"
       THEN Invoke("addBreadcrumb", breadcrumb, "NativeClientError", <<>>)
       ELSE LET withLevel == Put(breadcrumb, "level", ProcessedLevel(breadcrumb))
                processed ==
                    IF "data" \in DOMAIN breadcrumb
                    THEN Put(withLevel, "data", _serializeObject(breadcrumb.data))
                    ELSE withLevel
            IN  Invoke("addBreadcrumb", breadcrumb, "returned",
                       << Call("addBreadcrumb", <<processed>>) >>)

\* A clear that follows a clear is dropped.
clearBreadcrumbsOnce ==
    /\ Unchanged
    /\ IF Gate = "disabled" THEN Invoke("clearBreadcrumbs", <<>>, "returned", <<>>)
       ELSE IF Gate = "unavailable"
       THEN Invoke("clearBreadcrumbs", <<>>, "NativeClientError", <<>>)
       ELSE IF Len(nativeCalls) > 0
               /\ nativeCalls[Len(nativeCalls)].method = "clearBreadcrumbs"
       THEN Invoke("clearBreadcrumbs", <<>>, "returned", <<>>)
       ELSE Invoke("clearBreadcrumbs", <<>>, "returned",
                   << Call("clearBreadcrumbs", <<>>) >>)

clearBreadcrumbs ==
    /\ Unchanged
    /\ IF Gate = "disabled" THEN Invoke("clearBreadcrumbs", <<>>, "returned", <<>>)
       ELSE IF Gate = "unavailable"
       THEN Invoke("clearBreadcrumbs", <<>>, "NativeClientError", <<>>)
       ELSE Invoke("clearBreadcrumbs", <<>>, "returned",
                   << Call("clearBreadcrumbs", <<>>) >>)

setContext(key, context) ==
    /\ Unchanged
    /\ IF Gate = "disabled" THEN Invoke("setContext", <<key, context>>, "returned", <<>>)
       ELSE IF Gate = "unavailable"
       THEN Invoke("setContext", <<key, context>>, "NativeClientError", <<>>)
       ELSE Invoke("setContext", <<key, context>>, "returned",
                   << Call("setContext",
                           <<key, IF context /= Null THEN _serializeObject(context)
                                  ELSE Null>>) >>)

-----------------------------------------------------------------------------
(* TouchEventBoundary *)

\* Longest chain of element instances from the touched one upwards.
MaxChain == 3

PROP_KEY == "sentry-label"

\* TouchEventBoundary.displayName
BoundaryDisplayName == "__Sentry.TouchEventBoundary"

\* A regular expression, as the set of the names it matches.
RegExp(matches) == [t |-> "regexp", matches |-> matches]

\* A string that is neither undefined nor empty.
Truthy(string) == string /= Undefined /\ string /= ""

_isNameIgnored(props, name) ==
    LET ignoreNames ==
            (IF "ignoreNames" \in DOMAIN props THEN props.ignoreNames ELSE <<>>)
            \o (IF "ignoredDisplayNames" \in DOMAIN props
                THEN props.ignoredDisplayNames ELSE <<>>)
    IN  \E i \in 1..Len(ignoreNames) :
            \/ ignoreNames[i].t = "string" /\ name = ignoreNames[i].s
            \/ ignoreNames[i].t = "regexp" /\ name \in ignoreNames[i].matches

\* `${props[PROP_KEY]}`
TemplateString(value) == IF value.t = "string" THEN value.s ELSE ToString(value.n)

\* typeof props?.[PROP_KEY] !== 'undefined' ? `${props[PROP_KEY]}` : undefined
Label(currentInst) ==
    IF /\ "memoizedProps" \in DOMAIN currentInst
       /\ PROP_KEY \in DOMAIN currentInst.memoizedProps
    THEN TemplateString(currentInst.memoizedProps[PROP_KEY])
    ELSE Undefined

\* typeof props?.accessibilityLabel === 'string'
HasAccessibilityLabel(currentInst) ==
    /\ "memoizedProps" \in DOMAIN currentInst
    /\ "accessibilityLabel" \in DOMAIN currentInst.memoizedProps
    /\ currentInst.memoizedProps.accessibilityLabel.t = "string"

\* currentInst.elementType?.displayName, undefined when there is none
DisplayName(currentInst) ==
    IF /\ "elementType" \in DOMAIN currentInst
       /\ "displayName" \in DOMAIN currentInst.elementType
    THEN currentInst.elementType.displayName
    ELSE Undefined

\* What one pass of the loop body finds in currentInst: a label, a display
\* name, or nothing.
Found(props, currentInst) ==
    IF Truthy(Label(currentInst)) /\ ~_isNameIgnored(props, Label(currentInst))
    THEN [as |-> "label", name |-> Label(currentInst)]
    ELSE IF /\ HasAccessibilityLabel(currentInst)
            /\ ~_isNameIgnored(props, currentInst.memoizedProps.accessibilityLabel.s)
    THEN [as |-> "label", name |-> currentInst.memoizedProps.accessibilityLabel.s]
    ELSE IF /\ Truthy(DisplayName(currentInst))
            /\ ~_isNameIgnored(props, DisplayName(currentInst))
    THEN [as |-> "displayName", name |-> DisplayName(currentInst)]
    ELSE [as |-> "nothing"]

\* The breadcrumb _logTouchEvent hands to addBreadcrumb.
Crumb(props, componentTreeNames, activeLabel) ==
    [category |-> props.breadcrumbCategory,
     data |-> [componentTree |-> componentTreeNames],
     level |-> "info",
     message |-> IF Truthy(activeLabel)
                 THEN "Touch event within element: " \o activeLabel
                 ELSE "Touch event within component tree",
     type |-> props.breadcrumbType]


\* The element instances of a chain.
Instances ==
    { [elementType |-> [displayName |-> "Button"]],
      [elementType |-> [displayName |-> "View"]],
      [elementType |-> [displayName |-> "Text"],
       memoizedProps |-> (PROP_KEY :> Str("L"))],
      [elementType |-> [name |-> "fn"],
       memoizedProps |-> [accessibilityLabel |-> Str("acc")]],
      [memoizedProps |-> (PROP_KEY :> Num(7)) @@ [accessibilityLabel |-> Str("View")]],
      [memoizedProps |-> [accessibilityLabel |-> Num(5)]],
      [elementType |-> [displayName |-> BoundaryDisplayName]] }

\* The touch events: _targetInst is the touched instance followed by its
\* ancestors, each the `return` of the one before it.
TouchEvents ==
    { [type |-> "touchstart"] } \cup
    { [type |-> "touchstart", _targetInst |-> chain] :
        chain \in UNION { [1..n -> Instances] : n \in 1..MaxChain } }

PropsSet ==
    { defaultProps,
      [defaultProps EXCEPT !.maxComponentTreeSize = 1,
                           !.ignoreNames = << Str("View") >>],
      [defaultProps EXCEPT !.maxComponentTreeSize = 2,
                           !.ignoreNames = << RegExp({"View", "L"}), Str("acc") >>],
      Put([defaultProps EXCEPT !.maxComponentTreeSize = 2],
          "ignoredDisplayNames", << Str("Button") >>),
      [defaultProps EXCEPT !.maxComponentTreeSize = 0] }

\* The boundary reads nothing of the wrapper: one wrapper suffices.
InitTouch ==
    /\ InitNative
    /\ RNSentry = "module"
    /\ platform = "ios"
    /\ touch \in { Mounted(props) : props \in PropsSet }

\* The size is compared with <=: the loop runs once more at the limit.
WhileConditionInclusive ==
    /\ touch.currentInst <= Len(touch.chain)
    /\ touch.props.maxComponentTreeSize /= 0
    /\ Len(touch.componentTreeNames) <= touch.props.maxComponentTreeSize

\* currentInst && this.props.maxComponentTreeSize &&
\* componentTreeNames.length < this.props.maxComponentTreeSize
WhileCondition ==
    /\ touch.currentInst <= Len(touch.chain)
    /\ touch.props.maxComponentTreeSize /= 0
    /\ Len(touch.componentTreeNames) < touch.props.maxComponentTreeSize

\* currentInst.elementType?.displayName === TouchEventBoundary.displayName
AtBoundary == DisplayName(touch.chain[touch.currentInst]) = BoundaryDisplayName

\* _onTouchStart up to its loop.
_onTouchStart(e) ==
    /\ touch.pc = "mounted"
    /\ touch' =
          IF "_targetInst" \in DOMAIN e
          THEN [pc |-> "while", props |-> touch.props, logged |-> touch.logged,
                chain |-> e._targetInst, currentInst |-> 1,
                activeLabel |-> Undefined, activeDisplayName |-> Undefined,
                componentTreeNames |-> <<>>, origins |-> <<>>]
          ELSE [touch EXCEPT !.pc = "returned"]
    /\ UNCHANGED <<enableNative, nativeIsReady, RNSentry, platform, nativeCalls,
                   sends, closes, inits, last, issued>>

\* One pass of the loop body. origins records which instance of the chain
\* each name of componentTreeNames was taken from.
whileIteration ==
    /\ touch.pc = "while"
    /\ WhileCondition
    /\ ~AtBoundary
    /\ LET found == Found(touch.props, touch.chain[touch.currentInst])
       IN  touch' =
             [touch EXCEPT
                !.activeLabel =
                    IF found.as = "label" /\ ~Truthy(@) THEN found.name ELSE @,
                !.activeDisplayName =
                    IF found.as = "displayName" /\ ~Truthy(@) THEN found.name ELSE @,
                !.componentTreeNames =
                    IF found.as /= "nothing" THEN Append(@, found.name) ELSE @,
                !.origins =
                    IF found.as /= "nothing" THEN Append(@, touch.currentInst) ELSE @,
                !.currentInst = @ + 1]
    /\ UNCHANGED <<enableNative, nativeIsReady, RNSentry, platform, nativeCalls,
                   sends, closes, inits, last, issued>>

\* The loop is left, by its condition or by the break: the touch is logged
\* if there is something to log.
afterWhile ==
    /\ touch.pc = "while"
    /\ ~(WhileCondition /\ ~AtBoundary)
    /\ LET finalLabel == IF touch.activeLabel /= Undefined THEN touch.activeLabel
                         ELSE touch.activeDisplayName
       IN  touch' =
             [touch EXCEPT
                !.pc = "returned",
                !.logged =
                    IF Len(touch.componentTreeNames) > 0 \/ Truthy(finalLabel)
                    THEN Append(@, Crumb(touch.props, touch.componentTreeNames,
                                         finalLabel))
                    ELSE @]
    /\ UNCHANGED <<enableNative, nativeIsReady, RNSentry, platform, nativeCalls,
                   sends, closes, inits, last, issued>>

-----------------------------------------------------------------------------
(* Specifications *)

MaxExtraBytes == 1

\* What getStringBytesLength can reply for a text: its length in bytes is its
\* length in characters or more.
ByteLengths(text) == { Len(text) + extra : extra \in 0..MaxExtraBytes }

AwaitingLength == { id \in DOMAIN sends : sends[id].pc = "getStringBytesLength" }

Replies ==
    \/ \E id \in AwaitingLength :
          \E bytes \in ByteLengths(sends[id].payloadString) :
             getStringBytesLengthResolved(id, bytes)
    \/ \E id \in AwaitingLength : getStringBytesLengthRejected(id)
    \/ \E id \in DOMAIN sends, reply \in BOOLEAN : captureEnvelopeResolved(id, reply)
    \/ \E id \in DOMAIN sends : captureEnvelopeRejected(id)

\* Every operation of the wrapper, called in any order, each call of an async
\* operation interleaved with the others at its awaits.
Next ==
    \/ \E event \in Events : sendEvent(event)
    \/ Replies
    \/ \E options \in OptionsSet : initNativeSdk(options)
    \/ \E id \in DOMAIN inits, reply \in BOOLEAN : initNativeSdkResolved(id, reply)
    \/ \E id \in DOMAIN inits : initNativeSdkRejected(id)
    \/ closeNativeSdk
    \/ \E id \in DOMAIN closes : closeNativeSdkResolved(id)
    \/ \E id \in DOMAIN closes : closeNativeSdkRejected(id)
    \/ fetchNativeRelease
    \/ fetchNativeSdkInfo
    \/ fetchNativeDeviceContexts
    \/ fetchNativeAppStart
    \/ fetchNativeFrames
    \/ nativeCrash
    \/ disableNativeFramesTracking
    \/ isNativeTransportAvailable
    \/ \E user \in Users : setUser(user)
    \/ \E value \in TagValues : setTag("k", value)
    \/ \E extra \in Extras : setExtra("k", extra)
    \/ \E breadcrumb \in ScopeCrumbs : addBreadcrumb(breadcrumb)
    \/ clearBreadcrumbs
    \/ \E context \in Contexts : setContext("k", context)

Spec == Init /\ [][Next]_vars

\* One sendEvent call, for every event, followed to its result.
NextEnvelope ==
    \/ \E event \in EnvelopeEvents : last.id = 0 /\ sendEvent(event)
    \/ Replies

SpecEnvelope == Init /\ [][NextEnvelope]_vars

\* One scope mutation, for every input.
NextScope ==
    \/ \E user \in ScopeUsers : last.id = 0 /\ setUser(user)
    \/ \E value \in ScopeValues : last.id = 0 /\ setTag("k", value)
    \/ \E extra \in ScopeValues : last.id = 0 /\ setExtra("k", extra)
    \/ \E breadcrumb \in ScopeBreadcrumbs : last.id = 0 /\ addBreadcrumb(breadcrumb)
    \/ last.id = 0 /\ clearBreadcrumbs
    \/ \E context \in ScopeContexts : last.id = 0 /\ setContext("k", context)

SpecScope == Init /\ [][NextScope]_vars

\* Calls of initNativeSdk, the first with any of InitOptions, each followed to
\* its result.
NextInit ==
    \/ \E options \in InitOptions : last.id = 0 /\ initNativeSdk(options)
    \/ \E options \in OptionsSet : last.id > 0 /\ initNativeSdk(options)
    \/ \E id \in DOMAIN inits, reply \in BOOLEAN : initNativeSdkResolved(id, reply)
    \/ \E id \in DOMAIN inits : initNativeSdkRejected(id)

SpecInit == Init /\ [][NextInit]_vars

\* One touch on a mounted TouchEventBoundary, for every chain and props; the
\* handler runs on once it was called.
NextTouch ==
    \/ \E e \in TouchEvents : _onTouchStart(e)
    \/ whileIteration
    \/ afterWhile

SpecTouch == InitTouch /\ [][NextTouch]_vars /\ WF_vars(whileIteration \/ afterWhile)

\* One call that hands native a level: a sendEvent or a scope mutation.
NextBoundary == NextEnvelope \/ NextScope

SpecBoundary == Init /\ [][NextBoundary]_vars

-----------------------------------------------------------------------------
(* Properties *)

Invoked == last.id > 0

FetchOps == {"fetchNativeRelease", "fetchNativeSdkInfo", "fetchNativeDeviceContexts",
             "fetchNativeAppStart", "fetchNativeFrames"}

GatedOps == ScopeOps \cup FetchOps \cup
            {"sendEvent", "nativeCrash", "closeNativeSdk",
             "disableNativeFramesTracking"}

\* The native calls made by invocation id, as indices into nativeCalls.
CallsBy(id) == { i \in 1..Len(nativeCalls) : nativeCalls[i].by = id }

\* The captureEnvelope calls of the sendEvent call id.
Captured(id) == { i \in CallsBy(id) : nativeCalls[i].method = "captureEnvelope" }

PendingCloses == { id \in DOMAIN closes : closes[id] = "closeNativeSdk" }

\* C1: whenever enableNative is false, sendEvent returns status 'skipped' and
\* every scope mutation returns normally, none of them makes a native call,
\* then or later, with the native module loaded or not.
C1_DisabledIsSkipped ==
    (Invoked /\ ~last.enabled /\ last.op \in ScopeOps \cup {"sendEvent"}) =>
        /\ last.outcome = IF last.op = "sendEvent" THEN "skipped" ELSE "returned"
        /\ last.made = 0
        /\ CallsBy(last.id) = {}
        /\ last.id \notin DOMAIN sends

C1_Witness ==
    /\ last.op = "sendEvent"
    /\ ~last.enabled
    /\ RNSentry = Undefined
    /\ last.outcome = "skipped"

\* C2 as stated: with enableNative true and no native module, every gated
\* operation, closeNativeSdk and disableNativeFramesTracking included, fails
\* with _NativeClientError and makes no native call.
C2_Original ==
    (Invoked /\ last.enabled /\ RNSentry = Undefined /\ last.op \in GatedOps) =>
        /\ last.outcome = "NativeClientError"
        /\ last.made = 0

\* closeNativeSdk and disableNativeFramesTracking return when the module is absent.
SilentOps == {"closeNativeSdk", "disableNativeFramesTracking"}

\* C2: with enableNative true and no native module, sendEvent, the
\* fetchNative* reads, nativeCrash and the six scope mutations fail with
\* _NativeClientError, closeNativeSdk and disableNativeFramesTracking return
\* normally, and none of them makes a native call.
C2_UnavailableThrows ==
    (Invoked /\ last.enabled /\ RNSentry = Undefined /\ last.op \in GatedOps) =>
        /\ last.outcome = IF last.op \in SilentOps THEN "returned"
                          ELSE "NativeClientError"
        /\ last.made = 0
        /\ CallsBy(last.id) = {}

C2_Witness ==
    /\ last.op = "fetchNativeFrames"
    /\ last.enabled
    /\ RNSentry = Undefined
    /\ last.outcome = "NativeClientError"

\* C3 as stated: in every state in which a native close has not resolved yet
\* enableNative is true, and a scope mutation invoked then is forwarded.
C3_Original ==
    \A id \in PendingCloses :
        /\ enableNative
        /\ (last.id > id /\ last.op \in ScopeOps) => last.made = 1

C3_Step ==
    /\ (last'.id /= last.id /\ last'.op = "closeNativeSdk") =>
            enableNative' = enableNative
    /\ (last'.id = last.id /\ enableNative /\ ~enableNative') =>
            \E id \in PendingCloses : closes'[id] = "resolved"
    /\ (\E id \in PendingCloses : closes'[id] = "rejected") =>
            enableNative' = enableNative
    /\ ( /\ last'.id /= last.id
         /\ last'.op \in ScopeOps
         /\ PendingCloses /= {}
         /\ enableNative ) =>
            /\ Len(nativeCalls') = Len(nativeCalls) + 1
            /\ nativeCalls'[Len(nativeCalls')].method = last'.op
            /\ nativeCalls'[Len(nativeCalls')].by = last'.id

\* C3: calling closeNativeSdk leaves enableNative as it is; closeNativeSdk
\* clears it only in the step in which its native closeNativeSdk call
\* resolves, and not when that call fails; a scope mutation invoked while a
\* native close is unresolved and enableNative is still true is forwarded.
C3_CloseClearsAfterResolve == [][C3_Step]_vars

C3_Witness ==
    /\ enableNative
    /\ last.op \in ScopeOps
    /\ last.made = 1
    /\ \E id \in PendingCloses : id < last.id

\* C4: once enableNative is false it is false in every later state, whatever
\* is called, initNativeSdk with enableNative: true included.
C4_DisablingIsOneDirectional == [][~enableNative => ~enableNative']_vars

\* An initNativeSdk call made while disabled reached the native initializer
\* (so its options enable native), native replied true, and the flag is
\* still false.
C4_Witness ==
    /\ ~enableNative
    /\ last.op = "initNativeSdk"
    /\ ~last.enabled
    /\ last.id \in DOMAIN inits
    /\ inits[last.id].result = "true"

-----------------------------------------------------------------------------
(* Properties of the envelope *)

\* event.exception.values[0].mechanism.handled exists and is b
HandledIs(event, b) ==
    /\ "exception" \in DOMAIN event
    /\ "values" \in DOMAIN event.exception
    /\ Len(event.exception.values) >= 1
    /\ "mechanism" \in DOMAIN event.exception.values[1]
    /\ "handled" \in DOMAIN event.exception.values[1].mechanism
    /\ event.exception.values[1].mechanism.handled = b

HandledAbsent(event) == ~HandledIs(event, TRUE) /\ ~HandledIs(event, FALSE)

HasCrumbs(event) == "breadcrumbs" \in DOMAIN event /\ Len(event.breadcrumbs) > 0

\* The envelope text built from a header, a payload, its key order and a length.
EnvelopeOf(header, payload, keys, length) ==
    EnvelopeString(StringifyHeader(header),
                   StringifyItem([content_type |-> "application/json",
                                  length |-> length,
                                  type |-> IF "type" \in DOMAIN payload
                                           THEN payload.type ELSE "event"]),
                   StringifyPayload(payload, keys))

\* Native call i hands over the payload the send id holds: as the value
\* itself on iOS, as the third line of the envelope text on android.
HandsPayload(i, id) ==
    IF platform = "ios"
    THEN nativeCalls[i].args[1].payload = sends[id].payload
    ELSE nativeCalls[i].args[1] =
            EnvelopeOf(sends[id].header, sends[id].payload,
                       PayloadKeys(sends[id].arg), sends[id].length)

\* The payload as native reads it: on android what the JSON text parses to.
LogicalPayload(id) ==
    IF platform = "ios" THEN sends[id].payload ELSE JsonRoundTrip(sends[id].payload)

\* A breadcrumb with its level converted and nothing else changed.
NormalizedCrumb(b) ==
    IF "level" \in DOMAIN b
    THEN [b EXCEPT !.level = IF @ = "critical" THEN "fatal"
                             ELSE IF @ = "log" THEN "debug" ELSE @]
    ELSE b

NormalizedCrumbs(bs) == [i \in 1..Len(bs) |-> NormalizedCrumb(bs[i])]

\* C5 as stated: on either platform, for an event with handled true and a
\* non-empty breadcrumb list, the payload handed to captureEnvelope has an
\* empty breadcrumb list.
C5_Original ==
    \A id \in DOMAIN sends : \A i \in Captured(id) :
        (HandledIs(sends[id].arg, TRUE) /\ HasCrumbs(sends[id].arg)) =>
            /\ HandsPayload(i, id)
            /\ LogicalPayload(id).breadcrumbs = <<>>

\* C5: for an event with handled true and a non-empty breadcrumb list, the
\* payload handed to captureEnvelope has an empty breadcrumb list on the
\* android path; on the iOS path it has the event's breadcrumbs, as many as
\* the event had.
C5_HandledClearsOnAndroid ==
    \A id \in DOMAIN sends : \A i \in Captured(id) :
        (HandledIs(sends[id].arg, TRUE) /\ HasCrumbs(sends[id].arg)) =>
            /\ HandsPayload(i, id)
            /\ platform = "android" => LogicalPayload(id).breadcrumbs = <<>>
            /\ platform = "ios" =>
                  Len(LogicalPayload(id).breadcrumbs) = Len(sends[id].arg.breadcrumbs)

C5_Witness ==
    /\ platform = "android"
    /\ \E id \in DOMAIN sends :
          /\ HandledIs(sends[id].arg, TRUE)
          /\ HasCrumbs(sends[id].arg)
          /\ Len(sends[id].arg.breadcrumbs) = MaxCrumbs
          /\ Captured(id) /= {}
          /\ sends[id].payload.breadcrumbs = <<>>

\* C6 as stated: for an event with handled false or absent, the payload
\* handed to captureEnvelope has the event's breadcrumb list verbatim.
C6_Original ==
    \A id \in DOMAIN sends : \A i \in Captured(id) :
        ( /\ HandledIs(sends[id].arg, FALSE) \/ HandledAbsent(sends[id].arg)
          /\ "breadcrumbs" \in DOMAIN sends[id].arg ) =>
            /\ HandsPayload(i, id)
            /\ LogicalPayload(id).breadcrumbs = sends[id].arg.breadcrumbs

\* C6: for an event with handled false, and on the iOS path also for one
\* without handled, the payload handed to captureEnvelope has the event's
\* breadcrumbs in their order, each unchanged but for its level, which is
\* converted (critical to fatal, log to debug); on the android path an event
\* without handled gets an empty breadcrumb list.
C6_UnhandledKeepsCrumbs ==
    \A id \in DOMAIN sends : \A i \in Captured(id) :
        "breadcrumbs" \in DOMAIN sends[id].arg =>
            /\ HandsPayload(i, id)
            /\ ( \/ HandledIs(sends[id].arg, FALSE)
                 \/ HandledAbsent(sends[id].arg) /\ platform = "ios" ) =>
                  LogicalPayload(id).breadcrumbs =
                      NormalizedCrumbs(sends[id].arg.breadcrumbs)
            /\ (HandledAbsent(sends[id].arg) /\ platform = "android") =>
                  LogicalPayload(id).breadcrumbs = <<>>

C6_Witness ==
    /\ platform = "android"
    /\ \E id \in DOMAIN sends :
          /\ HandledIs(sends[id].arg, FALSE)
          /\ Captured(id) /= {}
          /\ HasCrumbs(sends[id].arg)
          /\ Len(sends[id].arg.breadcrumbs) = MaxCrumbs
          /\ sends[id].arg.breadcrumbs[1] = [message |-> "b2", level |-> "critical"]
          /\ LogicalPayload(id).breadcrumbs[1] = [message |-> "b2", level |-> "fatal"]

\* C7: sendEvent ends with status 'success' or 'failed', never with an error,
\* whatever the native captureEnvelope call does.
C7_DeliveryFailureIsAResult ==
    \A id \in DOMAIN sends :
        sends[id].pc = "done" => sends[id].result \in {"success", "failed"}

\* C8: a sendEvent call that passed the gate makes one captureEnvelope call,
\* none before the length reply on android and never a second one, and its
\* status is 'success' exactly when native replied true and 'failed' exactly
\* when native replied false.
C8_OneCaptureStatusFromReply ==
    \A id \in DOMAIN sends :
        /\ Cardinality(Captured(id)) =
              IF sends[id].pc = "getStringBytesLength" THEN 0 ELSE 1
        /\ sends[id].result \in {"pending", "success", "failed", "rejected"}
        /\ (sends[id].pc = "done" /\ sends[id].result /= "rejected") =>
              /\ sends[id].result = "success" <=> sends[id].envelopeWasSent
              /\ sends[id].result = "failed" <=> ~sends[id].envelopeWasSent

C8_Witness ==
    \E id \in DOMAIN sends :
        /\ sends[id].pc = "done"
        /\ sends[id].result = "failed"
        /\ ~sends[id].envelopeWasSent
        /\ Cardinality(Captured(id)) = 1

\* C9: on the android path, once the native getStringBytesLength call has
\* failed the length is the character length of the payload text, sendEvent
\* goes on, and captureEnvelope is called with the envelope whose item carries
\* that length; once it has succeeded the length is the value native replied.
C9_LengthFallback ==
    \A id \in DOMAIN sends :
        (platform = "android" /\ sends[id].bytes.status /= "pending") =>
            /\ sends[id].pc \in {"captureEnvelope", "done"}
            /\ sends[id].payloadString =
                  StringifyPayload(sends[id].payload, PayloadKeys(sends[id].arg))
            /\ sends[id].length =
                  IF sends[id].bytes.status = "rejected"
                  THEN Len(sends[id].payloadString)
                  ELSE sends[id].bytes.value
            /\ \E i \in Captured(id) : HandsPayload(i, id)

C9_Witness ==
    \E id \in DOMAIN sends :
        /\ platform = "android"
        /\ sends[id].bytes.status = "rejected"
        /\ sends[id].length = Len(sends[id].payloadString)
        /\ sends[id].result = "success"

\* The scope-mutation calls among the native calls, in the order made.
ScopeCalls == SelectSeq(nativeCalls, LAMBDA c : c.method \in ScopeOps)

\* C10: the scope mutations invoked while enabled and loaded and the native
\* scope calls correspond one to one, in order: the n-th native scope call is
\* made by the n-th invocation and is the native method of the same name.
C10_OneCallPerMutation ==
    /\ Len(ScopeCalls) = Len(issued)
    /\ \A n \in 1..Len(issued) :
          /\ ScopeCalls[n].method = issued[n].op
          /\ ScopeCalls[n].by = issued[n].id

C10_Witness ==
    /\ Len(issued) = MaxOps
    /\ \A n \in 1..Len(issued) : issued[n].op = "clearBreadcrumbs"
    /\ Len(nativeCalls) = MaxOps
    /\ \A n \in 1..Len(nativeCalls) : nativeCalls[n].method = "clearBreadcrumbs"

Errors == {"NativeClientError", "DisabledNativeError"}

\* C11: the native-disabled condition is never thrown: every operation, the
\* five fetchNative* included, that is called while enableNative is false ends
\* in a skip, a no-op or an empty result, never in a thrown error or a rejected
\* promise.
C11_DisabledNeverThrown ==
    (Invoked /\ ~last.enabled) => last.outcome \notin Errors

\* The options with which initNativeSdk returns before it looks at the module:
\* enableNative: false, autoInitializeNativeSdk: false, or no dsn.
ShortCircuits(options) ==
    \/ ("enableNative" \in DOMAIN options /\ ~options.enableNative)
    \/ ("autoInitializeNativeSdk" \in DOMAIN options
           /\ ~options.autoInitializeNativeSdk)
    \/ "dsn" \notin DOMAIN options

\* C12: initNativeSdk returns false, without calling the native initializer and
\* without throwing, whenever options.enableNative is false,
\* options.autoInitializeNativeSdk is false, or no dsn is given, the native
\* module loaded or not; it throws NativeUnavailable (_NativeClientError) only
\* when none of the three holds and the module is absent.
C12_InitShortCircuits ==
    (Invoked /\ last.op = "initNativeSdk") =>
        /\ ShortCircuits(last.arg) =>
              /\ last.outcome = "false"
              /\ last.made = 0
              /\ CallsBy(last.id) = {}
              /\ last.id \notin DOMAIN inits
        /\ last.outcome = "NativeClientError" <=>
              (~ShortCircuits(last.arg) /\ RNSentry = Undefined)

C12_Witness ==
    /\ last.op = "initNativeSdk"
    /\ RNSentry = Undefined
    /\ "dsn" \notin DOMAIN last.arg
    /\ last.outcome = "false"

\* The scope mutation op was called with the gate open.
Forwarded(op) ==
    /\ Invoked
    /\ last.op = op
    /\ last.enabled
    /\ RNSentry /= Undefined

\* The arguments of the native call the latest invocation made.
LastArgs == nativeCalls[Len(nativeCalls)].args

IsString(value) == value /= Undefined

\* C13: setUser(null) issues one native setUser call with two null maps;
\* setUser(u) with u non-null issues one native setUser call whose first map
\* holds exactly the keys id, ip_address, email and username and whose second
\* map holds exactly the remaining keys of u, no key in both and none lost,
\* every value in both maps a string.
C13_SetUserSplits ==
    Forwarded("setUser") =>
        /\ last.made = 1
        /\ nativeCalls[Len(nativeCalls)].method = "setUser"
        /\ IF last.arg = Null
           THEN LastArgs = <<Null, Null>>
           ELSE /\ DOMAIN LastArgs[1] = DefaultUserKeys
                /\ DOMAIN LastArgs[2] = DOMAIN last.arg \ DefaultUserKeys
                /\ \A k \in DOMAIN LastArgs[1] : IsString(LastArgs[1][k])
                /\ \A k \in DOMAIN LastArgs[2] : IsString(LastArgs[2][k])

\* C14: _processLevel maps critical to fatal and log to debug and returns every
\* other level unchanged; applying it to its own output changes nothing, and
\* its output is never critical or log.
C14_ProcessLevel ==
    (Forwarded("addBreadcrumb") /\ "level" \in DOMAIN last.arg) =>
        LET level == last.arg.level
            out == LastArgs[1].level
        IN  /\ level = "critical" => out = "fatal"
            /\ level = "log" => out = "debug"
            /\ level \notin {"critical", "log"} => out = level
            /\ _processLevel(out) = out
            /\ out \notin {"critical", "log"}

C14_Witness ==
    /\ Forwarded("addBreadcrumb")
    /\ "level" \in DOMAIN last.arg
    /\ last.arg.level = "log"
    /\ LastArgs[1].level = "debug"

\* C15: _serializeObject returns a map with exactly the keys of its input in
\* which every value is a string: a string value is passed through unchanged,
\* any other value is replaced by its JSON text, nested objects stringified
\* whole.
C15_SerializeObject ==
    (Forwarded("setContext") /\ last.arg[2] /= Null) =>
        LET data == last.arg[2]
            serialized == LastArgs[2]
        IN  /\ DOMAIN serialized = DOMAIN data
            /\ \A k \in DOMAIN data :
                  /\ IsString(serialized[k])
                  /\ data[k].t = "string" => serialized[k] = data[k].s
                  /\ data[k].t = "number" => serialized[k] = ToString(data[k].n)
                  /\ data[k].t = "object" => serialized[k] = "{\"k\":1}"

\* The native calls made by the step.
NewCalls == SubSeq(nativeCalls', Len(nativeCalls) + 1, Len(nativeCalls'))

C16_Step ==
    ~enableNative =>
        \A i \in 1..Len(NewCalls) : NewCalls[i].method = "initNativeSdk"

\* C16: in every interleaving of the asynchronous operations, no native call
\* other than the native initializer is issued in a state where enableNative
\* is false; in particular a sendEvent suspended on getStringBytesLength does
\* not go on to call captureEnvelope after a concurrent closeNativeSdk has
\* completed.
C16_NoCallWhileDisabled == [][C16_Step]_vars

\* The step is the call of op, up to its return or its first await.
Calls(op) == last'.id /= last.id /\ last'.op = op

\* The step is the continuation of an initNativeSdk call whose native call
\* settled, resolved when the call's result is one of results.
InitSettles(results) ==
    \E id \in DOMAIN inits :
        inits[id].pc = "initNativeSdk" /\ inits'[id].result \in results

\* The same for a closeNativeSdk call.
CloseSettles(outcomes) == \E id \in PendingCloses : closes'[id] \in outcomes

InitStep == Calls("initNativeSdk") \/ InitSettles({"true", "false", "rejected"})
CloseStep == Calls("closeNativeSdk") \/ CloseSettles({"resolved", "rejected"})

FlagsUnchanged == enableNative' = enableNative /\ nativeIsReady' = nativeIsReady

\* C17 as stated: initNativeSdk never changes enableNative, closeNativeSdk
\* never changes nativeIsReady, every other operation leaves both unchanged.
C17_OriginalStep ==
    /\ InitStep => enableNative' = enableNative
    /\ CloseStep => nativeIsReady' = nativeIsReady /\ (enableNative' => enableNative)
    /\ ~(InitStep \/ CloseStep) => FlagsUnchanged

C17_Original == [][C17_OriginalStep]_vars

C17_Step ==
    /\ Calls("initNativeSdk") =>
          /\ nativeIsReady' = nativeIsReady
          /\ enableNative' =
                IF "enableNative" \in DOMAIN last'.arg /\ ~last'.arg.enableNative
                THEN FALSE ELSE enableNative
    /\ InitSettles({"true"}) => nativeIsReady' /\ enableNative' = enableNative
    /\ InitSettles({"false"}) => ~nativeIsReady' /\ enableNative' = enableNative
    /\ InitSettles({"rejected"}) => FlagsUnchanged
    /\ Calls("closeNativeSdk") => FlagsUnchanged
    /\ CloseSettles({"resolved"}) => ~enableNative' /\ nativeIsReady' = nativeIsReady
    /\ CloseSettles({"rejected"}) => FlagsUnchanged
    /\ ~(InitStep \/ CloseStep) => FlagsUnchanged

\* C17: the two flags are changed by initNativeSdk and closeNativeSdk only.
\* initNativeSdk sets nativeIsReady to the reply of the native initializer and
\* changes enableNative in one case only, setting it to false when it is called
\* with enableNative: false; closeNativeSdk clears enableNative when its native
\* call resolved and never changes nativeIsReady; every other operation leaves
\* both flags unchanged.
C17_FlagsFrame == [][C17_Step]_vars

C17_Witness ==
    /\ nativeIsReady
    /\ ~enableNative
    /\ \E id \in DOMAIN inits : inits[id].result = "true"
    /\ \E id \in DOMAIN closes : closes[id] = "resolved"

\* The payload native reads when the event of the send id goes through the
\* android branch, and when it goes through the iOS branch.
OnAndroid(id) == JsonRoundTrip(AndroidPayload(Prepared(sends[id].arg)))
OnIos(id) == IosPayload(Prepared(sends[id].arg))

\* The send id handed native the payload of the branch of its platform.
HandsBranchPayload(id) ==
    /\ \A i \in Captured(id) : HandsPayload(i, id)
    /\ LogicalPayload(id) = IF platform = "android" THEN OnAndroid(id) ELSE OnIos(id)

\* C18 as stated: for every event the payload of the android branch and the
\* payload of the iOS branch are equal field for field, the breadcrumb list
\* included.
C18_Original ==
    \A id \in DOMAIN sends :
        Captured(id) /= {} => (HandsBranchPayload(id) /\ OnAndroid(id) = OnIos(id))

\* C18: for every event the payload of the android branch and the payload of
\* the iOS branch have the same fields with the same values, the breadcrumb
\* list excepted: the iOS payload carries the event's breadcrumbs with their
\* levels normalized, the android payload carries the same list when
\* mechanism.handled is false and an empty list otherwise.
C18_PayloadsAgreeButCrumbs ==
    \A id \in DOMAIN sends :
        Captured(id) /= {} =>
            /\ HandsBranchPayload(id)
            /\ DOMAIN OnAndroid(id) = DOMAIN OnIos(id)
            /\ \A k \in DOMAIN OnIos(id) \ {"breadcrumbs"} :
                  OnAndroid(id)[k] = OnIos(id)[k]
            /\ "breadcrumbs" \in DOMAIN sends[id].arg =>
                  /\ OnIos(id).breadcrumbs = NormalizedCrumbs(sends[id].arg.breadcrumbs)
                  /\ OnAndroid(id).breadcrumbs =
                        IF HandledIs(sends[id].arg, FALSE)
                        THEN OnIos(id).breadcrumbs ELSE <<>>

C18_Witness ==
    \E id \in DOMAIN sends :
        /\ Captured(id) /= {}
        /\ HasCrumbs(sends[id].arg)
        /\ Len(sends[id].arg.breadcrumbs) = MaxCrumbs
        /\ HandledIs(sends[id].arg, TRUE)
        /\ "level" \in DOMAIN sends[id].arg
        /\ "message" \in DOMAIN sends[id].arg
        /\ OnAndroid(id) /= OnIos(id)

Normalized(level) ==
    CASE level = "critical" -> "fatal"
      [] level = "log" -> "debug"
      [] OTHER -> level

\* obj, as native receives it, has the level of given normalized, or no level
\* when given has none.
LevelNormalized(obj, given) ==
    IF "level" \in DOMAIN given
    THEN Has(obj, "level") /\ obj.level = Normalized(given.level)
    ELSE ~Has(obj, "level")

\* C19: no critical or log level crosses the native boundary: in every payload
\* handed to captureEnvelope the level of the event and the level of every
\* breadcrumb, and in every breadcrumb handed to the native addBreadcrumb the
\* level, is the normalized value of the caller's level, an absent level
\* staying absent.
C19_LevelsNormalized ==
    /\ \A id \in DOMAIN sends : \A i \in Captured(id) :
          LET payload == LogicalPayload(id)
              event == sends[id].arg
          IN  /\ HandsPayload(i, id)
              /\ LevelNormalized(payload, event)
              /\ "breadcrumbs" \in DOMAIN payload =>
                    \A n \in 1..Len(payload.breadcrumbs) :
                        LevelNormalized(payload.breadcrumbs[n], event.breadcrumbs[n])
    /\ Forwarded("addBreadcrumb") =>
          /\ nativeCalls[Len(nativeCalls)].method = "addBreadcrumb"
          /\ LevelNormalized(LastArgs[1], last.arg)

C19_Witness ==
    /\ platform = "android"
    /\ \E id \in DOMAIN sends :
          /\ Captured(id) /= {}
          /\ "level" \in DOMAIN sends[id].arg
          /\ sends[id].arg.level = "log"
          /\ LogicalPayload(id).level = "debug"
          /\ HandledIs(sends[id].arg, FALSE)
          /\ HasCrumbs(sends[id].arg)
          /\ \E n \in 1..Len(sends[id].arg.breadcrumbs) :
                /\ "level" \in DOMAIN sends[id].arg.breadcrumbs[n]
                /\ sends[id].arg.breadcrumbs[n].level = "critical"
                /\ LogicalPayload(id).breadcrumbs[n].level = "fatal"

\* C20: sendEvent works on a derived copy and leaves the caller's event
\* unchanged on every path, skipped, thrown, success or failed: it still has
\* its sdkProcessingMetadata, its breadcrumb list, its breadcrumb levels, its
\* level and its bare message.
C20_CallerEventUnchanged ==
    (Invoked /\ last.op = "sendEvent") =>
        /\ last.left = last.arg
        /\ \A k \in {"sdkProcessingMetadata", "breadcrumbs", "level", "message"} :
              k \in DOMAIN last.arg =>
                  k \in DOMAIN last.left /\ last.left[k] = last.arg[k]

C20_Witness ==
    /\ last.op = "sendEvent"
    /\ platform = "android"
    /\ last.id \in DOMAIN sends
    /\ sends[last.id].result = "success"
    /\ "sdkProcessingMetadata" \in DOMAIN last.left
    /\ "sdkProcessingMetadata" \notin DOMAIN sends[last.id].payload
    /\ Len(last.left.breadcrumbs) > 0
    /\ sends[last.id].payload.breadcrumbs = <<>>
    /\ last.left.level = "critical"
    /\ sends[last.id].payload.level = "fatal"

Stripped == {"beforeSend", "beforeBreadcrumb", "integrations",
             "defaultIntegrations", "transport"}

\* The options every native initializer call was handed: none of the stripped
\* ones, every other option of the caller with its value.
C21_Handed ==
    \A id \in DOMAIN inits :
        /\ Cardinality(CallsBy(id)) = 1
        /\ \A i \in CallsBy(id) :
              /\ nativeCalls[i].method = "initNativeSdk"
              /\ DOMAIN nativeCalls[i].args[1] \cap Stripped = {}
              /\ \A k \in DOMAIN inits[id].options \ Stripped :
                    /\ k \in DOMAIN nativeCalls[i].args[1]
                    /\ nativeCalls[i].args[1][k] = inits[id].options[k]

C21_Ready ==
    /\ C21_Handed
    /\ nativeIsReady => \E id \in DOMAIN inits : inits[id].result = "true"

\* The step in which native replies to the call id hands the reply to the
\* caller and to nativeIsReady.
C21_Step ==
    \A id \in DOMAIN inits :
        (inits[id].pc = "initNativeSdk" /\ inits'[id].pc = "done"
            /\ inits'[id].result /= "rejected") =>
                /\ inits'[id].result \in {"true", "false"}
                /\ nativeIsReady' = (inits'[id].result = "true")

\* C21: when initNativeSdk reaches the native initializer, the options passed
\* contain none of beforeSend, beforeBreadcrumb, integrations,
\* defaultIntegrations, transport and contain every other supplied option;
\* initNativeSdk then returns the boolean native replied and nativeIsReady
\* equals it. In every reachable state nativeIsReady is true only if some
\* native initializer call has replied true.
C21_InitHandsFilteredOptions == []C21_Ready /\ [][C21_Step]_vars

C21_Witness ==
    /\ nativeIsReady
    /\ \E id \in DOMAIN inits :
          /\ inits[id].result = "true"
          /\ {"transport", "integrations", "beforeSend", "release"}
                \subseteq DOMAIN inits[id].options
          /\ \E i \in CallsBy(id) :
                DOMAIN nativeCalls[i].args[1] =
                    {"dsn", "release", "enableNative", "autoInitializeNativeSdk"}

\* The first boundary of the chain, as an index, or one past its end.
BoundaryAt ==
    LET at == { i \in 1..Len(touch.chain) :
                   DisplayName(touch.chain[i]) = BoundaryDisplayName }
    IN  IF at = {} THEN Len(touch.chain) + 1
        ELSE CHOOSE i \in at : \A j \in at : i <= j

Handling == touch.pc \in {"while", "returned"} /\ "chain" \in DOMAIN touch

\* The names collected and logged so far.
C22_Names ==
    Handling =>
        /\ touch.currentInst <= Len(touch.chain) + 1
        /\ Len(touch.componentTreeNames) <= touch.props.maxComponentTreeSize
        /\ Len(touch.origins) = Len(touch.componentTreeNames)
        /\ \A n \in 1..Len(touch.componentTreeNames) :
              /\ ~_isNameIgnored(touch.props, touch.componentTreeNames[n])
              /\ touch.origins[n] < BoundaryAt
              /\ touch.origins[n] < touch.currentInst

C22_Logged ==
    /\ Len(touch.logged) <= 1
    /\ touch.pc /= "returned" => touch.logged = <<>>
    /\ \A n \in 1..Len(touch.logged) :
          /\ Handling
          /\ touch.logged[n].data.componentTree = touch.componentTreeNames
    /\ (touch.pc = "returned" /\ Handling /\ touch.componentTreeNames = <<>>
           /\ ~Truthy(touch.activeLabel)) => touch.logged = <<>>
    /\ (touch.pc = "returned" /\ ~Handling) => touch.logged = <<>>

\* C22: the touch handler of TouchEventBoundary, walking a finite parent chain
\* from the touched element, always terminates and logs at most one breadcrumb
\* per touch; the logged componentTree never holds more than
\* maxComponentTreeSize names, never an ignored name, and never a name of the
\* boundary element or of an ancestor above it; no breadcrumb is logged when no
\* name was collected and no label was found.
C22_TouchHandler ==
    /\ [](C22_Names /\ C22_Logged)
    /\ (touch.pc = "while") ~> (touch.pc = "returned")

C22_Witness ==
    /\ touch.pc = "returned"
    /\ Len(touch.logged) = 1
    /\ Len(touch.chain) = MaxChain
    /\ BoundaryAt = MaxChain
    /\ Len(touch.componentTreeNames) = 1
    /\ \E i \in 1..(MaxChain - 1) : _isNameIgnored(touch.props, DisplayName(touch.chain[i]))

====
